---- MODULE Spec2Model ----
(***************************************************************************)
(* Bloom filter demo: the fixed filter of src/bin/main-1.rs and the        *)
(* adaptive (resizing) filter of src/bin/main-2.rs.                        *)
(*                                                                         *)
(* A behaviour constructs one filter (either variant) and then issues      *)
(* add / contains calls on it.  A Rust panic (remainder by zero, index out *)
(* of range) is recorded in the filter's `panicked` flag; a panicked       *)
(* filter takes no further calls.                                          *)
(***************************************************************************)
EXTENDS Integers, Sequences, FiniteSets, TLC

\* ---- bounds of the model ----
NItems == 2      \* number of distinct items a caller uses
MaxHash == 2     \* hasher.finish() ranges over 0..MaxHash
MaxSize == 3     \* constructor sizes range over 0..MaxSize
MaxK == 2        \* hash counts range over 0..MaxK
MaxAdds == 3     \* add calls per filter
MaxNewSize == 3  \* sizes handed to a direct resize call range over 0..MaxNewSize
MaxPrints == 2   \* estimator calls per filter

Items == 0 .. (NItems - 1)

VARIABLES
    finish,       \* DefaultHasher (main-2.rs:78-80, main-1.rs:20-22):
                  \* finish[item] is hasher.finish() after item.hash
    variant,      \* "none" before construction, then "fixed" or "adaptive"
    fixed,        \* struct BloomFilter of main-1.rs:4-8
    adaptive,     \* struct BloomFilter<T> of main-2.rs:6-12
    added,        \* the caller's add calls that have returned, in order
                  \* (main-2.rs:173-175)
    initial_size, \* the size the caller read right after construction
                  \* (main-2.rs:170)
    op, arg, ret, \* the caller's last call, its argument and what it
                  \* returned (main-2.rs:125-130)
    stdout        \* the lines the filter's methods have printed
                  \* (main-2.rs:48), each as <<k, n, m>>

vars ==
    <<finish, variant, fixed, adaptive, added, initial_size, op, arg, ret,
      stdout>>

\* ---- helpers ----

\* The u64 `^` operator on (small) naturals.
RECURSIVE xor(_, _)
xor(a, b) ==
    IF a = 0 /\ b = 0 THEN 0
    ELSE (((a % 2) + (b % 2)) % 2) + (2 * xor(a \div 2, b \div 2))

\* vec![false; size] / bitvec![0; size]: indices 0..size-1, all false.
zeros(size) == [i \in 0 .. (size - 1) |-> FALSE]

\* ---- main-1.rs: the fixed filter ----

fixed_new(size, hash_functions) ==
    [bit_vector |-> zeros(size), size |-> size,
     hash_functions |-> hash_functions, panicked |-> FALSE]

\* (hasher.finish() ^ seed) as usize % self.size, for self.size > 0
fixed_hash(self, item, seed) == xor(finish[item], seed) % self.size

RECURSIVE fixed_add_from(_, _, _)
fixed_add_from(self, item, i) ==
    IF i >= self.hash_functions THEN self
    ELSE IF self.size = 0 THEN [self EXCEPT !.panicked = TRUE]
    ELSE LET index == fixed_hash(self, item, i) IN
         IF index \notin DOMAIN self.bit_vector
         THEN [self EXCEPT !.panicked = TRUE]
         ELSE fixed_add_from([self EXCEPT !.bit_vector[index] = TRUE], item, i + 1)

\* fixed_add that starts from a zeroed bit array
fixed_add_on_fresh_bits(self, item) ==
    fixed_add_from([self EXCEPT !.bit_vector = zeros(self.size)], item, 0)

\* fixed_add with the seed loop started at 1 instead of 0
fixed_add_seeds_from_one(self, item) == fixed_add_from(self, item, 1)

fixed_add(self, item) == fixed_add_from(self, item, 0)

RECURSIVE fixed_contains_from(_, _, _)
fixed_contains_from(self, item, i) ==
    IF i >= self.hash_functions THEN "true"
    ELSE IF self.size = 0 THEN "panic"
    ELSE LET index == fixed_hash(self, item, i) IN
         IF index \notin DOMAIN self.bit_vector THEN "panic"
         ELSE IF ~self.bit_vector[index] THEN "false"
         ELSE fixed_contains_from(self, item, i + 1)

fixed_contains(self, item) == fixed_contains_from(self, item, 0)

\* ---- main-2.rs: the adaptive filter ----

\* (hasher.finish() ^ seed) as usize
default_hash(item, seed) == xor(finish[item], seed)

\* hash_functions is the list of closures |item| default_hash(item, seed);
\* each closure is represented by its seed.  `resizes` and `trace` are not
\* fields of the struct: during the caller's last call, `resizes` counts the
\* runs of resize's body and `trace` lists, in program order, the steps taken:
\* <<"resize", new_size>> (lines 62-64), <<"set", item>> (lines 30-33) and
\* <<"push", item>> (line 34).
new(size, hash_functions) ==
    [bit_vector |-> zeros(size), size |-> size,
     hash_functions |-> hash_functions, items |-> <<>>, panicked |-> FALSE,
     resizes |-> 0, trace |-> <<>>]

\* should_resize with > in place of >=
should_resize_strict(self) == Len(self.items) > self.size

should_resize(self) == Len(self.items) >= self.size

\* calculate_new_size that grows by one slot instead of doubling
calculate_new_size_plus_one(self) == self.size + 1

\* calculate_new_size with the size halved instead of doubled
calculate_new_size_halved(self) == self.size \div 2

calculate_new_size(self) == self.size * 2

\* the `for hash_function in &self.hash_functions` loop of add
RECURSIVE set_bits_from(_, _, _)
set_bits_from(self, item, i) ==
    IF i > Len(self.hash_functions) THEN self
    ELSE IF self.size = 0 THEN [self EXCEPT !.panicked = TRUE]
    ELSE LET index == default_hash(item, self.hash_functions[i]) % self.size IN
         IF index \notin DOMAIN self.bit_vector
         THEN [self EXCEPT !.panicked = TRUE]
         ELSE set_bits_from([self EXCEPT !.bit_vector[index] = TRUE], item, i + 1)

RECURSIVE add(_, _)
RECURSIVE resize(_, _)
RECURSIVE replay(_, _)

\* add that does not log an item the log already holds
add_skip_logged(self, item) ==
    LET s1 == IF should_resize(self)
              THEN resize(self, calculate_new_size(self))
              ELSE self
        s2 == IF s1.panicked THEN s1
              ELSE set_bits_from(
                       [s1 EXCEPT !.trace = Append(@, <<"set", item>>)], item, 1)
    IN  IF s2.panicked THEN s2
        ELSE IF \E i \in 1 .. Len(s2.items) : s2.items[i] = item THEN s2
        ELSE [s2 EXCEPT !.items = Append(@, item),
                        !.trace = Append(@, <<"push", item>>)]

\* add with the item's bits set before the resize check
add_set_before_resize(self, item) ==
    LET s1 == set_bits_from(
                  [self EXCEPT !.trace = Append(@, <<"set", item>>)], item, 1)
        s2 == IF ~s1.panicked /\ should_resize(s1)
              THEN resize(s1, calculate_new_size(s1))
              ELSE s1
    IN  IF s2.panicked THEN s2
        ELSE [s2 EXCEPT !.items = Append(@, item),
                        !.trace = Append(@, <<"push", item>>)]

add(self, item) ==
    LET s1 == IF should_resize(self)
              THEN resize(self, calculate_new_size(self))
              ELSE self
        s2 == IF s1.panicked THEN s1
              ELSE set_bits_from(
                       [s1 EXCEPT !.trace = Append(@, <<"set", item>>)], item, 1)
    IN  IF s2.panicked THEN s2
        ELSE [s2 EXCEPT !.items = Append(@, item),
                        !.trace = Append(@, <<"push", item>>)]

\* the `for item in old_items { self.add(&item) }` loop of resize
replay(self, old_items) ==
    IF old_items = <<>> \/ self.panicked THEN self
    ELSE replay(add(self, Head(old_items)), Tail(old_items))

\* resize without the replay of the logged items
resize_without_replay(self, new_size) ==
    [self EXCEPT !.size = new_size,
                 !.bit_vector = zeros(new_size),
                 !.resizes = @ + 1]

\* resize that grows the old bit array in place instead of zeroing a new one
resize_keeps_old_bits(self, new_size) ==
    LET old_items == self.items
        old_bits == self.bit_vector
        cleared == [self EXCEPT !.size = new_size,
                                !.bit_vector =
                                    [i \in 0 .. (new_size - 1) |->
                                        i \in DOMAIN old_bits /\ old_bits[i]],
                                !.items = <<>>,
                                !.resizes = @ + 1,
                                !.trace = Append(@, <<"resize", new_size>>)]
    IN  replay(cleared, old_items)

\* resize that leaves the log cleared after rebuilding the bits
resize_log_not_restored(self, new_size) ==
    LET old_items == self.items
        cleared == [self EXCEPT !.size = new_size,
                                !.bit_vector = zeros(new_size),
                                !.items = <<>>,
                                !.resizes = @ + 1,
                                !.trace = Append(@, <<"resize", new_size>>)]
    IN  [replay(cleared, old_items) EXCEPT !.items = <<>>]

resize(self, new_size) ==
    LET old_items == self.items
        cleared == [self EXCEPT !.size = new_size,
                                !.bit_vector = zeros(new_size),
                                !.items = <<>>,
                                !.resizes = @ + 1,
                                !.trace = Append(@, <<"resize", new_size>>)]
    IN  replay(cleared, old_items)

RECURSIVE contains_from(_, _, _)
contains_from(self, item, i) ==
    IF i > Len(self.hash_functions) THEN "true"
    ELSE IF self.size = 0 THEN "panic"
    ELSE LET index == default_hash(item, self.hash_functions[i]) % self.size IN
         IF index \notin DOMAIN self.bit_vector THEN "panic"
         ELSE IF ~self.bit_vector[index] THEN "false"
         ELSE contains_from(self, item, i + 1)

\* contains that looks at the first hash function only
contains_first_only(self, item) ==
    IF self.hash_functions = <<>> THEN "true"
    ELSE contains_from([self EXCEPT !.hash_functions = <<Head(@)>>], item, 1)

contains(self, item) == contains_from(self, item, 1)

\* ---- the state machine ----

Init ==
    /\ finish \in [Items -> 0 .. MaxHash]
    /\ variant = "none"
    /\ fixed = fixed_new(0, 0)
    /\ adaptive = new(0, <<>>)
    /\ added = <<>>
    /\ initial_size = 0
    /\ op = "none"
    /\ arg = 0
    /\ ret = "unit"
    /\ stdout = <<>>

NewFixed(size, k) ==
    /\ variant = "none"
    /\ variant' = "fixed"
    /\ fixed' = fixed_new(size, k)
    /\ initial_size' = fixed'.size
    /\ op' = "new" /\ arg' = 0 /\ ret' = "unit"
    /\ UNCHANGED <<finish, stdout, adaptive, added>>

NewAdaptive(size, k) ==
    /\ variant = "none"
    /\ variant' = "adaptive"
    /\ adaptive' = new(size, [i \in 1 .. k |-> i - 1])
    /\ initial_size' = adaptive'.size
    /\ op' = "new" /\ arg' = 0 /\ ret' = "unit"
    /\ UNCHANGED <<finish, stdout, fixed, added>>

FixedAdd(item) ==
    /\ variant = "fixed"
    /\ ~fixed.panicked
    /\ Len(added) < MaxAdds
    /\ fixed' = fixed_add(fixed, item)
    /\ added' = IF fixed'.panicked THEN added ELSE Append(added, item)
    /\ op' = "add" /\ arg' = item
    /\ ret' = IF fixed'.panicked THEN "panic" ELSE "unit"
    /\ UNCHANGED <<finish, stdout, variant, adaptive, initial_size>>

FixedContains(item) ==
    /\ variant = "fixed"
    /\ ~fixed.panicked
    /\ op' = "contains" /\ arg' = item
    /\ ret' = fixed_contains(fixed, item)
    /\ fixed' = [fixed EXCEPT !.panicked = (ret' = "panic")]
    /\ UNCHANGED <<finish, stdout, variant, adaptive, added, initial_size>>

AdaptiveAdd(item) ==
    /\ variant = "adaptive"
    /\ ~adaptive.panicked
    /\ Len(added) < MaxAdds
    /\ adaptive' = add([adaptive EXCEPT !.resizes = 0, !.trace = <<>>], item)
    /\ added' = IF adaptive'.panicked THEN added ELSE Append(added, item)
    /\ op' = "add" /\ arg' = item
    /\ ret' = IF adaptive'.panicked THEN "panic" ELSE "unit"
    /\ UNCHANGED <<finish, stdout, variant, fixed, initial_size>>

AdaptiveContains(item) ==
    /\ variant = "adaptive"
    /\ ~adaptive.panicked
    /\ op' = "contains" /\ arg' = item
    /\ ret' = contains(adaptive, item)
    /\ adaptive' = [adaptive EXCEPT !.panicked = (ret' = "panic")]
    /\ UNCHANGED <<finish, stdout, variant, fixed, added, initial_size>>

Next ==
    \/ \E size \in 0 .. MaxSize, k \in 0 .. MaxK : NewFixed(size, k)
    \/ \E size \in 0 .. MaxSize, k \in 0 .. MaxK : NewAdaptive(size, k)
    \/ \E item \in Items : FixedAdd(item)
    \/ \E item \in Items : FixedContains(item)
    \/ \E item \in Items : AdaptiveAdd(item)
    \/ \E item \in Items : AdaptiveContains(item)

Spec == Init /\ [][Next]_vars

\* A direct call of the private method resize, as code of the module (a unit
\* test, a future policy) can make it, with any requested size.
ResizeCall(new_size) ==
    /\ variant = "adaptive"
    /\ ~adaptive.panicked
    /\ adaptive' = resize([adaptive EXCEPT !.resizes = 0, !.trace = <<>>], new_size)
    /\ op' = "resize" /\ arg' = new_size
    /\ ret' = IF adaptive'.panicked THEN "panic" ELSE "unit"
    /\ UNCHANGED <<finish, stdout, variant, fixed, added, initial_size>>

NextResize ==
    \/ Next
    \/ \E new_size \in 0 .. MaxNewSize : ResizeCall(new_size)

SpecResize == Init /\ [][NextResize]_vars

\* calculate_false_positive_rate: k, n and m are read from the filter, the
\* println! of line 48 writes them to stdout, and an f64 is returned (f64
\* arithmetic does not panic, also for m = 0); the f64 itself is not
\* represented.
CalculateFalsePositiveRate ==
    /\ variant = "adaptive"
    /\ ~adaptive.panicked
    /\ Len(stdout) < MaxPrints
    /\ LET k == Len(adaptive.hash_functions)
           m == adaptive.size
           n == Len(adaptive.items)
       IN  stdout' = Append(stdout, <<k, n, m>>)
    /\ op' = "calculate_false_positive_rate" /\ arg' = 0
    /\ ret' = "float"
    /\ UNCHANGED <<finish, variant, fixed, adaptive, added, initial_size>>

NextEstimate ==
    \/ Next
    \/ CalculateFalsePositiveRate

SpecEstimate == Init /\ [][NextEstimate]_vars

TypeOK ==
    /\ variant \in {"none", "fixed", "adaptive"}
    /\ ret \in {"unit", "true", "false", "panic", "float"}
    /\ Len(added) <= MaxAdds

\* ---- what a caller can observe ----

Constructed == variant # "none"

\* the filter of the behaviour's variant has panicked
Panicked ==
    \/ variant = "fixed" /\ fixed.panicked
    \/ variant = "adaptive" /\ adaptive.panicked

\* what contains(item) would return in the current state
Query(item) ==
    IF variant = "fixed" THEN fixed_contains(fixed, item)
    ELSE contains(adaptive, item)

\* the bit at `index` of the bit array `bit_vector` exists and is true
BitSet(bit_vector, index) == index \in DOMAIN bit_vector /\ bit_vector[index]

\* h mod m, where it is defined
Mod(h, m) == IF m > 0 THEN h % m ELSE 0 - 1

\* ---- claims ----

\* C1: adaptive filter, no false negatives: every item whose add has returned
\* is reported by contains, also after further adds and the resizes they
\* trigger.
C1_AdaptiveNoFalseNegatives ==
    (variant = "adaptive" /\ ~adaptive.panicked) =>
        \A i \in 1 .. Len(added) : contains(adaptive, added[i]) = "true"

\* C1 witness: after a resize, a contains call for the first item added
\* returned true on a filter that does hash.
C1_Witness ==
    /\ variant = "adaptive"
    /\ adaptive.size > initial_size
    /\ Len(adaptive.hash_functions) >= 1
    /\ Len(added) >= 2
    /\ op = "contains" /\ arg = added[1] /\ ret = "true"

\* C2: fixed filter, no false negatives: every item whose add has returned
\* is reported by contains, also after further adds.
C2_FixedNoFalseNegatives ==
    (variant = "fixed" /\ ~fixed.panicked) =>
        \A i \in 1 .. Len(added) : fixed_contains(fixed, added[i]) = "true"

\* C2 witness: after adds of two different items, a contains call for the
\* first one returned true on a fixed filter with two hash functions and some
\* bit still false.
C2_Witness ==
    /\ variant = "fixed"
    /\ fixed.hash_functions >= 2
    /\ Len(added) >= 2
    /\ added[1] # added[2]
    /\ \E i \in DOMAIN fixed.bit_vector : ~fixed.bit_vector[i]
    /\ op = "contains" /\ arg = added[1] /\ ret = "true"

\* C3: a freshly constructed filter of size m >= 1, before any add, reports
\* contains(x) = false for every item x, whatever hash configuration the
\* constructor accepted.
C3_EmptyFilterContainsNothing ==
    (/\ Constructed
     /\ added = <<>>
     /\ ~Panicked
     /\ initial_size >= 1) => \A item \in Items : Query(item) = "false"

\* C4: construction with size 0 or hash count 0 is rejected: no filter
\* object exists with such arguments.
C4_ZeroRejectedAtConstruction ==
    /\ variant = "fixed" => (fixed.size >= 1 /\ fixed.hash_functions >= 1)
    /\ variant = "adaptive" =>
           (adaptive.size >= 1 /\ Len(adaptive.hash_functions) >= 1)

\* C5: on every filter new returned, add returns normally and contains
\* returns a boolean: no call ends in a panic.
C5_AddAndContainsNeverFail ==
    Constructed => (~Panicked /\ ret # "panic")

\* C6: a resize request whose new_size does not exceed the current size is
\* refused: size, bits and log are left as they were.
C6_ResizeRejectsNonGrowing ==
    [][(op' = "resize" /\ arg' <= adaptive.size) =>
           /\ adaptive'.size = adaptive.size
           /\ adaptive'.bit_vector = adaptive.bit_vector
           /\ adaptive'.items = adaptive.items]_vars

\* C7: once an adaptive filter constructed with size m has taken m+1 add
\* calls, a resize has happened, the size is strictly greater than m and
\* every item added so far is still reported by contains.
C7_ForcedResize ==
    (/\ variant = "adaptive"
     /\ ~adaptive.panicked
     /\ Len(added) >= initial_size + 1) =>
        /\ adaptive.size > initial_size
        /\ \A i \in 1 .. Len(added) : contains(adaptive, added[i]) = "true"

\* C9: contains(item) returns true if and only if, for every hash function
\* (seeds 0..k-1 in the fixed variant), the bit at index hash(item) mod m is
\* true in the current bit array, for the current size m.
C9_ContainsIffAllBitsSet ==
    /\ (variant = "fixed" /\ op = "contains") =>
           (ret = "true" <=>
               \A seed \in 0 .. (fixed.hash_functions - 1) :
                   BitSet(fixed.bit_vector,
                          Mod(xor(finish[arg], seed), fixed.size)))
    /\ (variant = "adaptive" /\ op = "contains") =>
           (ret = "true" <=>
               \A i \in 1 .. Len(adaptive.hash_functions) :
                   BitSet(adaptive.bit_vector,
                          Mod(xor(finish[arg], adaptive.hash_functions[i]),
                              adaptive.size)))

\* C9 witness: contains returned false on an adaptive filter that holds
\* items, although the bit of its first hash function is set.
C9_Witness ==
    /\ variant = "adaptive"
    /\ op = "contains" /\ ret = "false"
    /\ adaptive.items # <<>>
    /\ Len(adaptive.hash_functions) >= 2
    /\ BitSet(adaptive.bit_vector,
              Mod(xor(finish[arg], adaptive.hash_functions[1]), adaptive.size))

\* C10: the adaptive filter's size never decreases over add calls and the
\* resizes they trigger.
C10_SizeNonDecreasing ==
    [][variant = "adaptive" => adaptive'.size >= adaptive.size]_vars

\* C10 witness: the size has grown twice (it is at least four times the
\* initial size m >= 1).
C10_Witness ==
    /\ variant = "adaptive"
    /\ initial_size >= 1
    /\ adaptive.size >= 4 * initial_size

\* C11: fixed variant: over add and contains calls no bit of the bit array
\* goes from true to false, and the size m and the hash count k keep their
\* construction values.
C11_FixedBitsMonotone ==
    [][variant = "fixed" =>
           /\ \A i \in DOMAIN fixed.bit_vector :
                  fixed.bit_vector[i] =>
                      (i \in DOMAIN fixed'.bit_vector /\ fixed'.bit_vector[i])
           /\ fixed'.size = fixed.size
           /\ fixed'.size = initial_size
           /\ fixed'.hash_functions = fixed.hash_functions]_vars

\* C11 witness: a fixed filter that has taken adds of two different items
\* and then a contains call, with a bit set and a bit still clear.
C11_Witness ==
    /\ variant = "fixed"
    /\ Len(added) >= 2 /\ added[1] # added[Len(added)]
    /\ op = "contains"
    /\ \E i, j \in DOMAIN fixed.bit_vector :
           fixed.bit_vector[i] /\ ~fixed.bit_vector[j]

\* C13: a caller's add(x) on the adaptive filter runs a resize if and only
\* if the log length n at entry satisfies n >= m; that resize is the first
\* step of the call, finished before x's bits are set and before x is
\* appended, which are the call's last two steps; an add entered with n < m
\* leaves the size as it was.
C13_ResizeTriggerAndOrder ==
    [][(variant = "adaptive" /\ op' = "add") =>
           LET n == Len(adaptive.items)
               m == adaptive.size
               t == adaptive'.trace
           IN  /\ adaptive'.resizes >= 1 <=> n >= m
               /\ n < m => adaptive'.size = m
               /\ (n >= m /\ ~adaptive'.panicked) =>
                      t[1] = <<"resize", 2 * m>>
               /\ ~adaptive'.panicked =>
                      /\ Len(t) >= 2
                      /\ t[Len(t) - 1] = <<"set", arg'>>
                      /\ t[Len(t)] = <<"push", arg'>>]_vars

\* C13 witness: the last call was an add, entered with n = m >= 2 on a
\* filter that hashes, and it ran a resize.
C13_Witness ==
    /\ variant = "adaptive"
    /\ op = "add" /\ ret = "unit"
    /\ initial_size >= 2
    /\ Len(adaptive.hash_functions) >= 1
    /\ adaptive.resizes = 1
    /\ Len(adaptive.items) = initial_size + 1

\* the bit array of `size` bits in which bit i is true exactly when some
\* item of `items` and some hash function of `hash_functions` give
\* hash_function(item) % size = i
BitsOf(items, size, hash_functions) ==
    [i \in 0 .. (size - 1) |->
        \E j \in 1 .. Len(items), h \in 1 .. Len(hash_functions) :
            Mod(default_hash(items[j], hash_functions[h]), size) = i]

\* C14: when resize(new_size) returns, the size is new_size, the bit array
\* is a fresh array of new_size bits holding exactly the bits of the logged
\* items hashed against new_size, and the log is the same items in the same
\* order as before the call.
C14_ResizeEffect ==
    [][(op' = "resize" /\ ~adaptive'.panicked) =>
           /\ adaptive'.size = arg'
           /\ adaptive'.bit_vector =
                  BitsOf(adaptive.items, arg', adaptive.hash_functions)
           /\ adaptive'.items = adaptive.items]_vars

\* C15: every caller's add(x) on the adaptive filter that returns, with or
\* without a resize, leaves the log equal to the log before the call with x
\* appended once at the end: n grows by exactly 1 and the log is the
\* caller's add sequence in order.
C15_AddAppendsToLog ==
    [][(variant = "adaptive" /\ op' = "add" /\ ~adaptive'.panicked) =>
           /\ adaptive'.items = Append(adaptive.items, arg')
           /\ Len(adaptive'.items) = Len(adaptive.items) + 1
           /\ adaptive'.items = added']_vars

\* C15 witness: an add that ran a resize has returned and the log holds
\* two different items followed by a repeated one.
C15_Witness ==
    /\ variant = "adaptive"
    /\ op = "add" /\ ret = "unit"
    /\ adaptive.resizes >= 1
    /\ Len(adaptive.items) = 3
    /\ adaptive.items[1] # adaptive.items[2]
    /\ adaptive.items[3] = adaptive.items[1]

\* the fields of the adaptive filter's struct
Fields(self) ==
    <<self.bit_vector, self.size, self.hash_functions, self.items>>

\* C16: a call of the false-positive-rate estimator leaves the bits, the
\* size, the hash functions and the log unchanged and has no other
\* observable effect; a contains call changes no filter state either.
C16_EstimatorAndContainsPure ==
    [][(variant = "adaptive" /\
        op' \in {"calculate_false_positive_rate", "contains"}) =>
           /\ Fields(adaptive') = Fields(adaptive)
           /\ stdout' = stdout]_vars

\* s is m times a power of two
RECURSIVE IsDoublingOf(_, _)
IsDoublingOf(s, m) ==
    \/ s = m
    \/ s > m /\ s % 2 = 0 /\ IsDoublingOf(s \div 2, m)

\* C17: on an adaptive filter of initial size m >= 1 a caller's add leaves
\* the size as it was or makes it exactly twice its value at entry; the
\* replay inside resize never resizes again (at most one resize per add);
\* so the size is always m times a power of two.
C17_GrowthByDoubling ==
    [][(variant = "adaptive" /\ initial_size >= 1 /\ op' = "add") =>
           /\ \/ adaptive'.size = adaptive.size
              \/ adaptive'.size = 2 * adaptive.size
           /\ adaptive'.resizes <= 1
           /\ adaptive'.resizes = 1 <=> adaptive'.size # adaptive.size
           /\ IsDoublingOf(adaptive'.size, initial_size)]_vars

\* C17 witness: the last add doubled the size for the second time.
C17_Witness ==
    /\ variant = "adaptive"
    /\ op = "add" /\ ret = "unit"
    /\ initial_size >= 1
    /\ adaptive.resizes = 1
    /\ adaptive.size = 4 * initial_size

\* C18: for an adaptive filter constructed with size m >= 1, between calls
\* the log length n is at most the current size (load factor at most 1).
C18_LoadAtMostOne ==
    (variant = "adaptive" /\ initial_size >= 1) =>
        Len(adaptive.items) <= adaptive.size

\* C18 witness: after a resize the log has filled the grown array again
\* (n equals the current size, which is larger than the initial size).
C18_Witness ==
    /\ variant = "adaptive"
    /\ initial_size >= 1
    /\ adaptive.size > initial_size
    /\ Len(adaptive.items) = adaptive.size

\* C19: between calls, bit i of the adaptive filter's current array is true
\* if and only if some logged item and some hash function of the filter give
\* h(item) mod current m = i; no bit set under an earlier size survives a
\* resize.
C19_BitsExact ==
    (variant = "adaptive" /\ ~adaptive.panicked) =>
        adaptive.bit_vector =
            BitsOf(adaptive.items, adaptive.size, adaptive.hash_functions)

\* C19 witness: a resized filter that hashes, where a bit that was set for
\* the first logged item under the initial size is clear under the current
\* size.
C19_Witness ==
    /\ variant = "adaptive"
    /\ initial_size >= 1
    /\ adaptive.size > initial_size
    /\ Len(adaptive.hash_functions) >= 1
    /\ ~adaptive.panicked
    /\ ~adaptive.bit_vector[
           Mod(default_hash(adaptive.items[1], adaptive.hash_functions[1]),
               initial_size)]

\* C20: the adaptive filter counts add calls, not distinct items: an add of
\* an item the log already holds still appends it and raises n by 1, and
\* when the same single item is added over and over to a filter of size m,
\* the first m adds run no resize and the (m+1)-th add runs one.
C20_DuplicatesCounted ==
    [][(variant = "adaptive" /\ op' = "add") =>
           LET x == arg'
               same == \A i \in 1 .. Len(added) : added[i] = x
           IN  /\ (~adaptive'.panicked /\
                   \E i \in 1 .. Len(adaptive.items) : adaptive.items[i] = x) =>
                      /\ adaptive'.items = Append(adaptive.items, x)
                      /\ Len(adaptive'.items) = Len(adaptive.items) + 1
               /\ (same /\ Len(added) < initial_size) => adaptive'.resizes = 0
               /\ (same /\ Len(added) = initial_size) =>
                      adaptive'.resizes >= 1]_vars

\* C20 witness: the same item has been added m + 1 times to a filter of
\* size m >= 2 that hashes, and the last of these adds ran the resize.
C20_Witness ==
    /\ variant = "adaptive"
    /\ op = "add" /\ ret = "unit"
    /\ initial_size >= 2
    /\ Len(adaptive.hash_functions) >= 1
    /\ Len(added) = initial_size + 1
    /\ \A i \in 1 .. Len(added) : added[i] = arg
    /\ adaptive.items = added
    /\ adaptive.resizes = 1

====
